---- MODULE Spec2Model ----
(***************************************************************************)
(* A model of the conversation-context engine of namiv3: the persistent    *)
(* store (conversations.js, kept in src/twitch_hookup.js lines 150-291),   *)
(* the chat surface (src/twitch_hookup.js lines 1-148 with the index.js of *)
(* src/unnamed/part_001), the console surface (src/unnamed/part_000), the  *)
(* mood engine (src/bot.js) and the safety classifier                      *)
(* (src/unnamed/part_003).                                                 *)
(*                                                                         *)
(* A text is a sequence of tokens; a token is a string that the model      *)
(* never splits.  String.includes is modelled on the lower-cased tokens.   *)
(* A file is a record with a field st: "missing", "corrupt" (it exists and *)
(* JSON.parse throws on it) or "ok".                                       *)
(***************************************************************************)
EXTENDS Integers, Sequences, FiniteSets, TLC

VARIABLES
    chatLogFile,          \* ./conversations/chat_logs/twitchchatconvervation_peepingotter.json
    profilesA,            \* ./conversations/conversation_<key>.json, per key
    profilesB,            \* ./conversations/user_profiles/conversation_<key>.json, per key
    currentMood,          \* bot.js: currentMood
    BOT_CONFIG,           \* bot.js: the mood dependent fields of BOT_CONFIG
    pc,                   \* where the running program is
    conversationHistory,  \* part_001: the chat window
    asks,                 \* every askQuestion call so far, with its LLM request and its result
    said,                 \* twitch_hookup.js: the client.say calls so far
    conversationData,     \* twitch_hookup.js: conversationData
    chatters,             \* twitch_hookup.js: chatters
    rlClosed,             \* readline interface closed by 'exit'
    events,               \* number of inbound events handled so far
    historyArray,         \* part_000: the console window
    repetitionCount,      \* part_000: repetitionCount
    lastUserMessage,      \* part_000: lastUserMessage
    underage,             \* part_000: the in-memory underage flag
    lastOp                \* the store operation called last, with what it returned

vars == <<chatLogFile, profilesA, profilesB, currentMood, BOT_CONFIG, pc,
          conversationHistory, asks, said, conversationData, chatters, rlClosed,
          events, historyArray, repetitionCount, lastUserMessage, underage, lastOp>>

diskVars == <<chatLogFile, profilesA, profilesB>>
moodVars == <<currentMood, BOT_CONFIG>>
chatVars == <<conversationHistory, said, conversationData, chatters, rlClosed>>
consoleVars == <<historyArray, repetitionCount, lastUserMessage, underage>>

-----------------------------------------------------------------------------
(* Bounds of the model *)

\* inbound events (chat messages, console lines) handled in one run
MaxEvents == 2
\* store operations called in one run of the store specification
MaxOps == 3
\* appendMessageToConversation calls started in one run of the append specification
MaxCalls == 3

-----------------------------------------------------------------------------
(* Texts *)

Min(a, b) == IF a < b THEN a ELSE b

\* Array.prototype.slice(a, b) on a sequence (0-based, end exclusive)
Slice(s, a, b) == SubSeq(s, a + 1, Min(b, Len(s)))

\* String.prototype.toLowerCase, token by token
toLowerCase(tok) ==
    CASE tok = "Nami" -> "nami"
      [] tok = "NAMI" -> "nami"
      [] tok = "NamiFan" -> "namifan"
      [] tok = "PeepingNami" -> "peepingnami"
      [] tok = "I am 16" -> "i am 16"
      [] tok = "Ada" -> "ada"
      [] tok = "PeepingOtter" -> "peepingotter"
      [] tok = "Set Mood To" -> "set mood to"
      [] tok = "EXIT" -> "exit"
      [] OTHER -> tok

\* the lower-case tokens that have "nami" as a substring
NamiTokens == {"nami", "namifan", "peepingnami",
               "you are peepingnami, often just called nami"}

\* the lower-case tokens that have "peepingnami" as a substring
PeepingNamiTokens == {"peepingnami", "you are peepingnami, often just called nami"}

\* text.toLowerCase().includes("nami")
includesNami(text) == \E i \in DOMAIN text : toLowerCase(text[i]) \in NamiTokens

\* text.toLowerCase().includes("peepingnami")
includesPeepingNami(text) ==
    \E i \in DOMAIN text : toLowerCase(text[i]) \in PeepingNamiTokens

\* the lower-case tokens that contain one of the underageIndicators
underageIndicators == {"i am 16", "im 16", "under 18", "i am underage"}

detectUnderage(message) ==
    \E i \in DOMAIN message : toLowerCase(message[i]) \in underageIndicators

Msg(role, content) == [role |-> role, content |-> content]

\* `${username}: ${question}`
UserContent(username, question) == <<username, ":">> \o question

-----------------------------------------------------------------------------
(* Mood engine: bot.js *)

Moods == {"happy", "angry", "horny", "sad"}

\* moodHandler[mood]; a template prints a missing entry as "undefined"
moodHandler(mood) ==
    CASE mood = "happy" -> "- When you're happy"
      [] mood = "horny" -> "- When you're horny"
      [] mood = "angry" -> "- When you're angry"
      [] mood = "sad" -> "- When you're sad"
      [] OTHER -> "undefined"

getMoodContent(mood) == <<"Your current mood is:", mood, moodHandler(mood)>>

getCreatoreDetails == <<"You were created by PeepingOtter">>

getRules == <<"- Limit replies to 80 characters">>

getPersonality(mood) ==
    <<"You are PeepingNami, often just called nami">> \o getMoodContent(mood)
        \o <<"The following rules MUST be followed.">> \o getRules

InitialMood == "happy"

InitialConfig ==
    [mood |-> InitialMood,
     mood_content |-> getMoodContent(InitialMood),
     personality |-> getPersonality(InitialMood),
     rules |-> getRules,
     creatorDetails |-> getCreatoreDetails]

\* setMoodConfig, were the personality regenerated before currentMood is updated
setMoodConfigStale(cfg, newMood) ==
    LET c1 == [cfg EXCEPT !.personality = getPersonality(cfg.mood)]
        c2 == [c1 EXCEPT !.mood = newMood]
        c3 == [c2 EXCEPT !.mood_content = getMoodContent(newMood)]
        c4 == [c3 EXCEPT !.rules = getRules]
    IN  [c4 EXCEPT !.creatorDetails = getCreatoreDetails]

\* BOT_CONFIG after setMood(newMood): the assignments of setMood in their order
setMoodConfig(cfg, newMood) ==
    LET c1 == [cfg EXCEPT !.mood = newMood]
        c2 == [c1 EXCEPT !.personality = getPersonality(newMood)]
        c3 == [c2 EXCEPT !.mood_content = getMoodContent(newMood)]
        c4 == [c3 EXCEPT !.rules = getRules]
    IN  [c4 EXCEPT !.creatorDetails = getCreatoreDetails]

\* `${personality} ${creatorDetails} ${rules}` of the given configuration
SystemMessageOf(cfg) ==
    Msg("system", cfg.personality \o cfg.creatorDetails \o cfg.rules)

\* the systemMessage every module builds when it is loaded: the mood is still
\* the default then, and the destructured strings are never read again
systemMessage == SystemMessageOf(InitialConfig)

-----------------------------------------------------------------------------
(* Files *)

Missing == [st |-> "missing", underage |-> FALSE, conversation |-> <<>>]
Corrupt == [st |-> "corrupt", underage |-> FALSE, conversation |-> <<>>]
UserRecord(flag, conv) == [st |-> "ok", underage |-> flag, conversation |-> conv]

NoLog == [st |-> "missing", data |-> <<>>]
CorruptLog == [st |-> "corrupt", data |-> <<>>]
Log(entries) == [st |-> "ok", data |-> entries]

exists(file) == file.st # "missing"

\* the keys of the per-user records
Speakers == {"Ada", "NamiFan"}
Keys == Speakers \cup {"anonymous", "PeepingOtter", "twitchChat"}

-----------------------------------------------------------------------------
(* Persistent store: conversations.js (src/twitch_hookup.js, lines 150-291), *)
(* appendMessage (src/twitch_hookup.js, lines 115-148) and                   *)
(* setUnderAgeToTrue (src/unnamed/part_003).  Every operation is a function  *)
(* of the files it reads and gives the files it leaves and what it returns.  *)

\* program constants of the two transcript policies
LoadThreshold == 40
LoadKeep == 20
AppendThreshold == 80
AppendDrop == 40

\* conversations.js: let historyArray = [systemMessage]
storeHistoryArray == <<systemMessage>>

\* the test of saveConversation, were it to let every item through
NotSystemLax(item) == TRUE

NotSystem(item) == item.role # "system"

\* saveConversation writes ./conversations/user_profiles/conversation_<username>.json
saveConversation(B, username, underageArg, hist) ==
    [B EXCEPT ![username] = UserRecord(underageArg, SelectSeq(hist, NotSystem))]

\* a load that writes the shortened transcript but hands back the long one
loadTwitchChatConversationStale(log, B) ==
    CASE log.st = "ok" ->
            IF Len(log.data) > LoadThreshold
            THEN LET kept == SubSeq(log.data, Len(log.data) - LoadKeep + 1, Len(log.data))
                 IN  [result |-> "return", value |-> log.data, log |-> Log(kept), B |-> B]
            ELSE [result |-> "return", value |-> log.data, log |-> log, B |-> B]
      [] log.st = "corrupt" ->
            [result |-> "throw", value |-> <<>>, log |-> log, B |-> B]
      [] OTHER ->
            [result |-> "return", value |-> <<>>, log |-> log,
             B |-> saveConversation(B, "twitchChat", FALSE, <<>>)]

loadTwitchChatConversation(log, B) ==
    CASE log.st = "ok" ->
            IF Len(log.data) > LoadThreshold
            THEN LET kept == SubSeq(log.data, Len(log.data) - LoadKeep + 1, Len(log.data))
                 IN  [result |-> "return", value |-> kept, log |-> Log(kept), B |-> B]
            ELSE [result |-> "return", value |-> log.data, log |-> log, B |-> B]
      [] log.st = "corrupt" ->
            [result |-> "throw", value |-> <<>>, log |-> log, B |-> B]
      [] OTHER ->
            [result |-> "return", value |-> <<>>, log |-> log,
             B |-> saveConversation(B, "twitchChat", FALSE, <<>>)]

\* a load that takes a record it cannot parse for an empty one
loadConversationEmptyOnCorrupt(A, B, username) ==
    CASE A[username].st = "ok" ->
            [result |-> "return", value |-> A[username].conversation, A |-> A, B |-> B]
      [] A[username].st = "corrupt" ->
            [result |-> "return", value |-> <<>>, A |-> A, B |-> B]
      [] OTHER ->
            [result |-> "throw", value |-> <<>>, A |-> A,
             B |-> saveConversation(B, username, FALSE, storeHistoryArray)]

\* loadConversation reads ./conversations/conversation_<username>.json; when that
\* file is missing it saves a user_profiles record and then reads the missing
\* file again, which throws
loadConversation(A, B, username) ==
    CASE A[username].st = "ok" ->
            [result |-> "return", value |-> A[username].conversation, A |-> A, B |-> B]
      [] A[username].st = "corrupt" ->
            [result |-> "throw", value |-> <<>>, A |-> A, B |-> B]
      [] OTHER ->
            [result |-> "throw", value |-> <<>>, A |-> A,
             B |-> saveConversation(B, username, FALSE, storeHistoryArray)]

\* the push of appendMessageToConversation, were it to store the user turn only
turnPairUserOnly(question, botReply) == <<Msg("user", question)>>

\* the two turns appendMessageToConversation pushes
turnPair(question, botReply) == <<Msg("user", question), Msg("assistant", botReply)>>

\* the first statement of appendMessageToConversation, were the record only
\* created once the call goes on after its await
createIfMissingLater(B, username) == B

\* if (!fs.existsSync(filename)) await saveConversation(username, false, historyArray):
\* the record is written before the call gives up control at the await
createIfMissing(B, username) ==
    IF ~exists(B[username])
    THEN saveConversation(B, username, FALSE, storeHistoryArray)
    ELSE B

\* the try block of appendMessageToConversation: read, parse, push the pair,
\* write; an error is caught and logged
appendTry(B, username, question, botReply) ==
    IF B[username].st = "ok"
    THEN [B EXCEPT ![username].conversation = @ \o turnPair(question, botReply)]
    ELSE B

\* appendMessageToConversation works on the user_profiles record; a parse error
\* is caught and logged, and the call returns all the same
appendMessageToConversation(B, username, question, botReply) ==
    appendTry(createIfMissing(B, username), username, question, botReply)

\* jsonData after the push, were the splice left out
appendedLogUntrimmed(data, chatEntry) == Append(data, chatEntry)

\* jsonData after the push and the splice of appendMessage
appendedLog(data, chatEntry) ==
    LET pushed == Append(data, chatEntry)
    IN  IF Len(pushed) > AppendThreshold
        THEN SubSeq(pushed, AppendDrop + 1, Len(pushed))
        ELSE pushed

\* appendMessage, were a missing file created "with an empty array"
appendMessageEmptyCreate(log, chatEntry) ==
    CASE log.st = "missing" -> Log(<<>>)
      [] log.st = "ok" -> Log(appendedLog(log.data, chatEntry))
      [] OTHER -> log

appendMessage(log, chatEntry) ==
    CASE log.st = "missing" -> Log(<<chatEntry>>)
      [] log.st = "ok" -> Log(appendedLog(log.data, chatEntry))
      [] OTHER -> log

\* flagged, were the flag switched instead of set
flaggedToggled(record, underageArg) == [record EXCEPT !.underage = ~@]

\* flagged, were the flag taken from the second parameter (default false)
flaggedFromArgument(record, underageArg) == [record EXCEPT !.underage = underageArg]

\* conversationData.underage = true
flagged(record, underageArg) == [record EXCEPT !.underage = TRUE]

\* setUnderAgeToTrue works on ./conversations/conversation_<username>.json
setUnderAgeToTrue(A, username, underageArg) ==
    CASE A[username].st = "ok" ->
            [result |-> "return", A |-> [A EXCEPT ![username] = flagged(@, underageArg)]]
      [] A[username].st = "corrupt" -> [result |-> "throw", A |-> A]
      [] OTHER -> [result |-> "return", A |-> A]

-----------------------------------------------------------------------------
(* Initial disk states *)

\* entry i of a transcript of a talkative chat: a user names the bot, the bot answers
TalkEntry(i) ==
    IF i % 2 = 1 THEN Msg("user", <<"Ada", ":", "Nami", ToString(i)>>)
    ELSE Msg("assistant", <<"ok", ToString(i)>>)

\* entry i of a transcript of a chat that never names the bot
QuietEntry(i) == Msg("user", <<"Ada", ":", "hi", ToString(i)>>)

Transcript(kind, n) ==
    [i \in 1..n |-> IF kind = "talk" THEN TalkEntry(i) ELSE QuietEntry(i)]

OldPair == turnPair(<<"hi">>, <<"old reply">>)

-----------------------------------------------------------------------------
(* What every specification starts from *)

NoOp == [op |-> "none", key |-> "", result |-> "", value |-> <<>>, before |-> <<>>,
         question |-> <<>>, botReply |-> <<>>, prev |-> "none", prevKey |-> "", n |-> 0]

MoodIdle == currentMood = InitialMood /\ BOT_CONFIG = InitialConfig

ChatIdle ==
    /\ conversationHistory = <<>>
    /\ said = <<>>
    /\ conversationData = <<>>
    /\ chatters = {}
    /\ rlClosed = FALSE

ConsoleIdle ==
    /\ historyArray = <<>>
    /\ repetitionCount = 0
    /\ lastUserMessage = <<>>
    /\ underage = FALSE

-----------------------------------------------------------------------------
(* SpecStore: the exported store operations called directly, in any order *)

StoreKeys == {"Ada", "twitchChat"}
StoreQuestions == {<<"hi">>, <<"Nami", "I am 16">>}
StoreReplies == {<<"lol">>}
StoreEntries == {Msg("user", <<"Ada", ":", "hi">>), Msg("assistant", <<"lol">>)}

\* the lengths of the stored transcripts tried: around each threshold
StoreLogLengths ==
    {0, 1, LoadThreshold, LoadThreshold + 1, AppendThreshold - 1, AppendThreshold}

StoreLogs ==
    {NoLog, CorruptLog} \cup {Log(Transcript("quiet", n)) : n \in StoreLogLengths}

\* records the old store (old-js/conversations.js) and setUnderAgeToTrue leave
\* in ./conversations
StoreRecordsA ==
    {Missing, Corrupt, UserRecord(FALSE, <<>>), UserRecord(FALSE, OldPair),
     UserRecord(TRUE, OldPair)}

\* records saveConversation and appendMessageToConversation leave in user_profiles
StoreRecordsB == {Missing, Corrupt, UserRecord(FALSE, <<>>), UserRecord(FALSE, OldPair)}

InitStore ==
    /\ chatLogFile \in StoreLogs
    /\ \E a \in StoreRecordsA :
          profilesA = [k \in Keys |-> IF k = "Ada" THEN a ELSE Missing]
    /\ \E b \in StoreRecordsB, t \in {Missing, UserRecord(FALSE, OldPair)} :
          profilesB = [k \in Keys |-> IF k = "Ada" THEN b
                                      ELSE IF k = "twitchChat" THEN t ELSE Missing]
    /\ MoodIdle /\ ChatIdle /\ ConsoleIdle
    /\ asks = <<>>
    /\ events = 0
    /\ pc = "store"
    /\ lastOp = NoOp

StoreFrame ==
    UNCHANGED <<moodVars, chatVars, consoleVars, asks, events, pc>>

CallLoadConversation(k) ==
    /\ pc = "store" /\ lastOp.n < MaxOps
    /\ LET r == loadConversation(profilesA, profilesB, k)
       IN  /\ profilesA' = r.A
           /\ profilesB' = r.B
           /\ lastOp' = [NoOp EXCEPT !.op = "loadConversation", !.key = k,
                                     !.result = r.result, !.value = r.value,
                                     !.prev = lastOp.op, !.prevKey = lastOp.key, !.n = lastOp.n + 1]
    /\ UNCHANGED chatLogFile
    /\ StoreFrame

CallLoadTwitchChatConversation ==
    /\ pc = "store" /\ lastOp.n < MaxOps
    /\ LET r == loadTwitchChatConversation(chatLogFile, profilesB)
       IN  /\ chatLogFile' = r.log
           /\ profilesB' = r.B
           /\ lastOp' = [NoOp EXCEPT !.op = "loadTwitchChatConversation",
                                     !.key = "peepingotter",
                                     !.result = r.result, !.value = r.value,
                                     !.prev = lastOp.op, !.prevKey = lastOp.key, !.n = lastOp.n + 1]
    /\ UNCHANGED profilesA
    /\ StoreFrame

CallAppendMessageToConversation(k, question, botReply) ==
    /\ pc = "store" /\ lastOp.n < MaxOps
    /\ profilesB' = appendMessageToConversation(profilesB, k, question, botReply)
    /\ lastOp' = [NoOp EXCEPT !.op = "appendMessageToConversation", !.key = k,
                              !.result = "return",
                              !.before = profilesB[k].conversation,
                              !.question = question, !.botReply = botReply,
                              !.prev = lastOp.op, !.prevKey = lastOp.key, !.n = lastOp.n + 1]
    /\ UNCHANGED <<chatLogFile, profilesA>>
    /\ StoreFrame

CallAppendMessage(chatEntry) ==
    /\ pc = "store" /\ lastOp.n < MaxOps
    /\ chatLogFile' = appendMessage(chatLogFile, chatEntry)
    /\ lastOp' = [NoOp EXCEPT !.op = "appendMessage", !.key = "peepingotter",
                              !.result = "return", !.before = chatLogFile.data,
                              !.question = chatEntry.content,
                              !.prev = lastOp.op, !.prevKey = lastOp.key, !.n = lastOp.n + 1]
    /\ UNCHANGED <<profilesA, profilesB>>
    /\ StoreFrame

CallSetUnderAgeToTrue(k, underageArg) ==
    /\ pc = "store" /\ lastOp.n < MaxOps
    /\ LET r == setUnderAgeToTrue(profilesA, k, underageArg)
       IN  /\ profilesA' = r.A
           /\ lastOp' = [NoOp EXCEPT !.op = "setUnderAgeToTrue", !.key = k,
                                     !.result = r.result,
                                     !.before = profilesA[k].conversation,
                                     !.prev = lastOp.op, !.prevKey = lastOp.key, !.n = lastOp.n + 1]
    /\ UNCHANGED <<chatLogFile, profilesB>>
    /\ StoreFrame

NextStore ==
    \/ \E k \in StoreKeys : CallLoadConversation(k)
    \/ CallLoadTwitchChatConversation
    \/ \E k \in StoreKeys, q \in StoreQuestions, r \in StoreReplies :
          CallAppendMessageToConversation(k, q, r)
    \/ \E e \in StoreEntries : CallAppendMessage(e)
    \/ \E k \in StoreKeys, u \in BOOLEAN : CallSetUnderAgeToTrue(k, u)

SpecStore == InitStore /\ [][NextStore]_vars

-----------------------------------------------------------------------------
(* The chat surface: askQuestion of index.js (src/unnamed/part_001) *)

\* program constants of the window trimming
Cap == 30
SalientQuota == 7
TrimBudget == 15

\* the filter of messagesToKeep
salient(message) ==
    \/ includesNami(message.content)
    \/ includesPeepingNami(message.content)
    \/ message.role = "assistant"

\* the trimming block, were only messagesToKeepLimited pushed back
trimmedLimited(history) ==
    LET messagesToDelete == Slice(history, 1, Len(history))
        messagesToKeep == SelectSeq(messagesToDelete, salient)
        messagesToKeepLimited == Slice(messagesToKeep, 0, SalientQuota)
        messagesToRemove ==
            Slice(messagesToDelete, 0, TrimBudget - Len(messagesToKeepLimited))
    IN  <<history[1]>> \o messagesToKeepLimited \o messagesToRemove

\* the window the trimming block leaves
trimmed(history) ==
    LET messagesToDelete == Slice(history, 1, Len(history))
        messagesToKeep == SelectSeq(messagesToDelete, salient)
        messagesToKeepLimited == Slice(messagesToKeep, 0, SalientQuota)
        messagesToRemove ==
            Slice(messagesToDelete, 0, TrimBudget - Len(messagesToKeepLimited))
    IN  <<history[1]>> \o messagesToKeep \o messagesToRemove

\* the push and the trimming block, were they placed after the trigger gate
pushAndTrimIfTriggered(history, username, question) ==
    LET pushed == Append(history, Msg("user", UserContent(username, question)))
    IN  IF ~(includesNami(question) \/ includesPeepingNami(question)) THEN history
        ELSE IF Len(pushed) > Cap THEN trimmed(pushed) ELSE pushed

\* the push of the user turn, then the trimming block
pushAndTrim(history, username, question) ==
    LET pushed == Append(history, Msg("user", UserContent(username, question)))
    IN  IF Len(pushed) > Cap THEN trimmed(pushed) ELSE pushed

\* triggered, were the negation of the gate lost
triggeredNegated(question) == ~(includesNami(question) \/ includesPeepingNami(question))

\* the trigger gate: askQuestion goes on to the LLM
triggered(question) == includesNami(question) \/ includesPeepingNami(question)

couldntProcess == <<"I couldn't process that, sorry!">>
somethingWrong == <<"Something went wrong, please try again later.">>

\* what the LLM collaborator can answer to one request
Replies == {<<"lol">>, <<>>}
LLMOutcomes ==
    {[kind |-> "throw", content |-> <<>>], [kind |-> "nomessage", content |-> <<>>]}
        \cup {[kind |-> "message", content |-> r] : r \in Replies}

\* a JavaScript string is truthy unless it is empty
truthy(text) == text # <<>>

\* the window after the LLM call, were the user turn taken back on a failure
windowAfterRollback(history, o) ==
    IF o.kind = "message" THEN Append(history, Msg("assistant", o.content))
    ELSE SubSeq(history, 1, Len(history) - 1)

\* the window after the LLM call has ended with outcome o: the assistant turn is
\* pushed when the response has a message, and nothing is done otherwise
windowAfter(history, o) ==
    IF o.kind = "message" THEN Append(history, Msg("assistant", o.content))
    ELSE history

\* one askQuestion call, as `asks` records it
Ask(speaker, question, via, result, messages, budget) ==
    [speaker |-> speaker, question |-> question, via |-> via, result |-> result,
     reply |-> <<>>, messages |-> messages, mood |-> BOT_CONFIG.mood,
     num_predict |-> budget]

Pending == {i \in DOMAIN asks : asks[i].result = "pending"}

\* the synchronous part of askQuestion(question, username) of the chat surface
askQuestionChat(question, username, via) ==
    LET window == pushAndTrim(conversationHistory, username, question)
    IN  /\ conversationHistory' = window
        /\ asks' = Append(asks,
                IF triggered(question)
                THEN Ask(username, question, via, "pending", window, 0)
                ELSE Ask(username, question, via, "null", <<>>, 0))

-----------------------------------------------------------------------------
(* Spec: the chat bot process, twitch_hookup.js with index.js *)

Questions == {<<"hi">>, <<"Nami", "hi">>, <<"I am 16">>, <<"nami", "I am 16">>}

\* the chat messages tried for each speaker
MessagesOf(name) == IF name = "Ada" THEN Questions ELSE {<<"hi">>, <<"Nami", "hi">>}

\* the console lines that are no command
ChatConsoleQuestions == {<<"hi">>, <<"Nami", "hi">>}

ConsoleCommands == {<<"EXIT">>, <<"set mood to", "angry">>, <<"Set Mood To", "grumpy">>}

ConsoleLines == ConsoleCommands \cup ChatConsoleQuestions

\* question.toLowerCase() === "exit"
isExit(line) == Len(line) = 1 /\ toLowerCase(line[1]) = "exit"

\* question.toLowerCase().startsWith("set mood to ")
\* a test of the command prefix that compares the line as it was typed
isSetMoodCaseSensitive(line) == Len(line) = 2 /\ line[1] = "set mood to"

isSetMood(line) == Len(line) = 2 /\ toLowerCase(line[1]) = "set mood to"

\* question.substring(12).trim()
newMoodOf(line) == line[2]

\* the lengths of the stored transcripts tried: around the cap of the window and
\* around the threshold of the load
ChatLogLengths == {0, Cap - 2, Cap - 1, Cap, LoadThreshold + 1}

ChatLogs ==
    {NoLog, CorruptLog}
        \cup {Log(Transcript(kind, n)) : kind \in {"quiet", "talk"}, n \in ChatLogLengths}

\* the user_profiles records of the speakers vary with the short transcripts only
Init ==
    /\ chatLogFile \in ChatLogs
    /\ profilesA = [k \in Keys |-> IF k = "Ada" THEN UserRecord(FALSE, OldPair) ELSE Missing]
    /\ \E b \in {Missing, Corrupt, UserRecord(FALSE, OldPair)} :
          /\ b # Missing => chatLogFile \in {NoLog, Log(<<>>)}
          /\ profilesB = [k \in Keys |-> IF k \in Speakers THEN b ELSE Missing]
    /\ MoodIdle /\ ChatIdle /\ ConsoleIdle
    /\ asks = <<>>
    /\ events = 0
    /\ pc = "load"
    /\ lastOp = NoOp

\* index.js is loaded: the window is built from the stored transcript
ChatLoad ==
    /\ pc = "load"
    /\ LET r == loadTwitchChatConversation(chatLogFile, profilesB)
       IN  /\ chatLogFile' = r.log
           /\ profilesB' = r.B
           /\ IF r.result = "throw"
              THEN pc' = "crashed" /\ UNCHANGED conversationHistory
              ELSE /\ pc' = "running"
                   /\ conversationHistory' = <<systemMessage>> \o r.value
    /\ UNCHANGED <<profilesA, moodVars, said, conversationData, chatters, rlClosed,
                   asks, events, consoleVars, lastOp>>

\* the display name of the account of the bot
botName == "PeepingNami"

\* client.on('message') for an event the bot itself sent, were `if (self) return`
\* missing: the event is handled as the message of a chatter
TwitchSelfMessageHandled(message) ==
    /\ pc = "running" /\ events < MaxEvents
    /\ events' = events + 1
    /\ lastOp' = [NoOp EXCEPT !.op = "self", !.question = message, !.n = lastOp.n + 1]
    /\ chatters' = chatters \cup {botName}
    /\ LET chatEntry == Msg("user", UserContent(botName, message))
       IN  /\ chatLogFile' = appendMessage(chatLogFile, chatEntry)
           /\ askQuestionChat(message, botName, "twitch")
           /\ conversationData' =
                 IF triggered(message) THEN conversationData
                 ELSE Append(conversationData, chatEntry)
    /\ UNCHANGED <<profilesA, profilesB, moodVars, said, rlClosed, consoleVars, pc>>

\* client.on('message') for an event the bot itself sent; lastOp counts these
\* events and keeps the text of the last one
TwitchSelfMessage(message) ==
    /\ pc = "running" /\ events < MaxEvents
    /\ events' = events + 1
    /\ lastOp' = [NoOp EXCEPT !.op = "self", !.question = message, !.n = lastOp.n + 1]
    /\ UNCHANGED <<diskVars, moodVars, chatVars, asks, consoleVars, pc>>

\* client.on('message') up to the point where it waits for the LLM, or to its end
\* when askQuestion returns null
TwitchMessage(name, message) ==
    /\ pc = "running" /\ events < MaxEvents
    /\ events' = events + 1
    /\ chatters' = chatters \cup {name}
    /\ LET chatEntry == Msg("user", UserContent(name, message))
       IN  /\ chatLogFile' = appendMessage(chatLogFile, chatEntry)
           /\ askQuestionChat(message, name, "twitch")
           /\ conversationData' =
                 IF triggered(message) THEN conversationData
                 ELSE Append(conversationData, chatEntry)
    /\ UNCHANGED <<profilesA, profilesB, moodVars, said, rlClosed, consoleVars, pc,
                   lastOp>>

\* rl.on('line') of index.js
ChatConsoleLine(line) ==
    /\ pc = "running" /\ ~rlClosed /\ events < MaxEvents
    /\ events' = events + 1
    /\ CASE isExit(line) ->
              /\ rlClosed' = TRUE
              /\ UNCHANGED <<moodVars, conversationHistory, asks>>
         [] isSetMood(line) ->
              /\ currentMood' = newMoodOf(line)
              /\ BOT_CONFIG' = setMoodConfig(BOT_CONFIG, newMoodOf(line))
              /\ UNCHANGED <<rlClosed, conversationHistory, asks>>
         [] OTHER ->
              /\ askQuestionChat(line, "anonymous", "console")
              /\ UNCHANGED <<rlClosed, moodVars>>
    /\ UNCHANGED <<diskVars, said, conversationData, chatters, consoleVars, pc, lastOp>>

\* what askQuestion returns once the LLM call of ask i has ended with outcome o
returned(o) ==
    CASE o.kind = "message" -> o.content
      [] o.kind = "nomessage" -> couldntProcess
      [] OTHER -> somethingWrong

resultOf(o) ==
    CASE o.kind = "message" -> "botReply"
      [] o.kind = "nomessage" -> "couldntProcess"
      [] OTHER -> "somethingWrong"

\* the name a reply would go to, were it kept in one variable for all handlers
addresseeLatest(i) == asks[Len(asks)].speaker

\* tags['display-name'] of the handler that awaited ask i
addressee(i) == asks[i].speaker

\* the LLM call of ask i ends: the rest of askQuestion, then the rest of the
\* message handler that awaited it
LLMResponds(i, o) ==
    /\ pc = "running" /\ i \in Pending
    /\ LET a == asks[i]
           botReply == returned(o)
           chatEntry == Msg("user", UserContent(a.speaker, a.question))
           botReplyEntry == Msg("assistant", botReply)
           answered == a.via = "twitch" /\ truthy(botReply)
       IN  /\ asks' = [asks EXCEPT ![i].result = resultOf(o), ![i].reply = botReply]
           /\ conversationHistory' = windowAfter(conversationHistory, o)
           /\ profilesB' =
                 IF o.kind = "message"
                 THEN appendMessageToConversation(profilesB, a.speaker, a.question, o.content)
                 ELSE profilesB
           /\ conversationData' =
                 IF a.via = "twitch"
                 THEN conversationData \o <<chatEntry>>
                          \o (IF answered THEN <<botReplyEntry>> ELSE <<>>)
                 ELSE conversationData
           /\ chatLogFile' =
                 IF answered THEN appendMessage(chatLogFile, botReplyEntry)
                 ELSE chatLogFile
           /\ said' =
                 IF answered
                 THEN Append(said, [to |-> addressee(i), text |-> botReply, ask |-> i])
                 ELSE said
    /\ UNCHANGED <<profilesA, moodVars, chatters, rlClosed, events, consoleVars, pc,
                   lastOp>>

Next ==
    \/ ChatLoad
    \/ TwitchSelfMessage(<<"lol">>)
    \/ \E name \in Speakers : \E m \in MessagesOf(name) : TwitchMessage(name, m)
    \/ \E line \in ConsoleLines : ChatConsoleLine(line)
    \/ \E i \in DOMAIN asks, o \in LLMOutcomes : LLMResponds(i, o)

Spec == Init /\ [][Next]_vars

-----------------------------------------------------------------------------
(* SpecConsole: the console program, src/unnamed/part_000 *)

\* const username = 'PeepingOtter'
consoleUsername == "PeepingOtter"

\* BOT_CONFIG.max_tokens and the numbers of the output budget
max_tokens == 120
RepeatStep == 50
BudgetFloor == 30
MinBudget == 2

\* console lines handled in one run
MaxLines == 4

\* the budget, were it cut to the minimum for a speaker flagged as underage
adjustedMaxTokensFlagged(count) ==
    LET adjusted == max_tokens - (count * RepeatStep)
    IN  IF underage \/ adjusted < BudgetFloor THEN MinBudget ELSE adjusted

\* the budget without its lower limit
adjustedMaxTokensUnfloored(count) == max_tokens - (count * RepeatStep)

\* let adjustedMaxTokens = ...; if (adjustedMaxTokens < 30) adjustedMaxTokens = 2
adjustedMaxTokens(count) ==
    LET adjusted == max_tokens - (count * RepeatStep)
    IN  IF adjusted < BudgetFloor THEN MinBudget ELSE adjusted

\* repetitionCount after askQuestion has compared the question with the last one
nextRepetitionCount(count, last, question) ==
    IF question = last THEN count + 1 ELSE 0

\* the lines tried that are no command; the empty line is the Enter key alone
ConsoleQuestions == {<<"hi">>, <<"I am 16">>, <<>>}

ConsoleInput == ConsoleCommands \cup ConsoleQuestions

\* the lines tried after n lines: the empty line is tried as the first line only
LinesAt(n) == IF n = 0 THEN ConsoleInput ELSE ConsoleInput \ {<<>>}

InitConsole ==
    /\ chatLogFile = NoLog
    /\ \E a \in {Missing, Corrupt, UserRecord(FALSE, <<>>), UserRecord(FALSE, OldPair),
                  UserRecord(TRUE, OldPair)} :
          profilesA = [k \in Keys |-> IF k = consoleUsername THEN a ELSE Missing]
    /\ \E b \in {Missing, Corrupt, UserRecord(FALSE, OldPair)} :
          profilesB = [k \in Keys |-> IF k = consoleUsername THEN b ELSE Missing]
    /\ MoodIdle /\ ChatIdle /\ ConsoleIdle
    /\ asks = <<>>
    /\ events = 0
    /\ pc = "load"
    /\ lastOp = NoOp

\* the module is loaded: historyArray = loadConversation(username, systemMessage)
ConsoleLoad ==
    /\ pc = "load"
    /\ LET r == loadConversation(profilesA, profilesB, consoleUsername)
       IN  /\ profilesA' = r.A
           /\ profilesB' = r.B
           /\ IF r.result = "throw"
              THEN pc' = "crashed" /\ UNCHANGED historyArray
              ELSE pc' = "prompt" /\ historyArray' = r.value
    /\ UNCHANGED <<chatLogFile, moodVars, chatVars, asks, events, repetitionCount,
                   lastUserMessage, underage, lastOp>>

\* the callback of rl.question, up to the point where askQuestion waits for the LLM;
\* lastOp keeps the line that was typed
ConsoleLine(line) ==
    /\ pc = "prompt" /\ events < MaxLines
    /\ events' = events + 1
    /\ lastOp' = [NoOp EXCEPT !.op = "line", !.question = line]
    /\ CASE isExit(line) ->
              /\ pc' = "closed"
              /\ UNCHANGED <<moodVars, consoleVars, asks>>
         [] isSetMood(line) ->
              /\ currentMood' = newMoodOf(line)
              /\ BOT_CONFIG' = setMoodConfig(BOT_CONFIG, newMoodOf(line))
              /\ UNCHANGED <<pc, consoleVars, asks>>
         [] OTHER ->
              LET count == nextRepetitionCount(repetitionCount, lastUserMessage, line)
                  window == Append(historyArray,
                                   Msg("user", UserContent(consoleUsername, line)))
              IN  /\ repetitionCount' = count
                  /\ lastUserMessage' = line
                  /\ historyArray' = window
                  /\ underage' = (underage \/ detectUnderage(line))
                  /\ asks' = Append(asks, Ask(consoleUsername, line, "console", "pending",
                                              window, adjustedMaxTokens(count)))
                  /\ pc' = "waiting"
                  /\ UNCHANGED moodVars
    /\ UNCHANGED <<diskVars, chatVars>>

\* where the console is after askQuestion, had askQuestion no catch: the
\* rejection leaves the callback before startConversation is called again
pcAfterAskUncaught(o) == IF o.kind = "throw" THEN "crashed" ELSE "prompt"

\* await askQuestion(question); startConversation(): askQuestion catches every
\* error of the LLM call, so the next prompt follows whatever the outcome
pcAfterAsk(o) == "prompt"

\* the LLM call ends: the rest of askQuestion, then startConversation asks again
ConsoleLLMResponds(o) ==
    /\ pc = "waiting"
    /\ LET i == Len(asks)
           a == asks[i]
       IN  /\ asks' = [asks EXCEPT ![i].result = resultOf(o),
                                   ![i].reply = IF o.kind = "message" THEN o.content ELSE <<>>]
           /\ historyArray' = windowAfter(historyArray, o)
           /\ profilesB' =
                 IF o.kind = "message"
                 THEN appendMessageToConversation(profilesB, consoleUsername, a.question,
                                                  o.content)
                 ELSE profilesB
    /\ pc' = pcAfterAsk(o)
    /\ UNCHANGED <<chatLogFile, profilesA, moodVars, chatVars, events, repetitionCount,
                   lastUserMessage, underage, lastOp>>

NextConsole ==
    \/ ConsoleLoad
    \/ \E line \in LinesAt(events) : ConsoleLine(line)
    \/ \E o \in LLMOutcomes : ConsoleLLMResponds(o)

SpecConsole == InitConsole /\ [][NextConsole]_vars

-----------------------------------------------------------------------------
(* SpecAppend: calls of appendMessageToConversation on one key that are        *)
(* started while earlier ones wait at their await                              *)

AppendKey == "Ada"
AppendQuestions == {<<"hi">>, <<"Nami", "hi">>, <<"Nami", "I am 16">>}
AppendReplies == {<<"lol">>, <<>>}

\* one call, as `asks` records it
AppendCallOf(question, botReply, result) ==
    [Ask(AppendKey, question, "append", result, <<>>, 0) EXCEPT !.reply = botReply]

\* lastOp keeps the conversation stored at the start
InitAppend ==
    /\ chatLogFile = NoLog
    /\ profilesA = [k \in Keys |-> Missing]
    /\ \E b \in StoreRecordsB :
          /\ profilesB = [k \in Keys |-> IF k = AppendKey THEN b ELSE Missing]
          /\ lastOp = [NoOp EXCEPT !.before = b.conversation]
    /\ MoodIdle /\ ChatIdle /\ ConsoleIdle
    /\ asks = <<>>
    /\ events = 0
    /\ pc = "append"

AppendFrame ==
    UNCHANGED <<chatLogFile, profilesA, moodVars, chatVars, consoleVars, events, pc, lastOp>>

\* a call runs to its first await, or to its end when the record exists
AppendStart(question, botReply) ==
    /\ pc = "append" /\ Len(asks) < MaxCalls
    /\ IF ~exists(profilesB[AppendKey])
       THEN /\ profilesB' = createIfMissing(profilesB, AppendKey)
            /\ asks' = Append(asks, AppendCallOf(question, botReply, "pending"))
       ELSE /\ profilesB' = appendTry(profilesB, AppendKey, question, botReply)
            /\ asks' = Append(asks, AppendCallOf(question, botReply, "done"))
    /\ AppendFrame

\* a call that waited at its await goes on with the try block
AppendResume(i) ==
    /\ pc = "append" /\ i \in Pending
    /\ profilesB' = appendTry(profilesB, AppendKey, asks[i].question, asks[i].reply)
    /\ asks' = [asks EXCEPT ![i].result = "done"]
    /\ AppendFrame

NextAppend ==
    \/ \E q \in AppendQuestions, r \in AppendReplies : AppendStart(q, r)
    \/ \E i \in DOMAIN asks : AppendResume(i)

SpecAppend == InitAppend /\ [][NextAppend]_vars

-----------------------------------------------------------------------------
(* The claims *)

Range(s) == {s[i] : i \in DOMAIN s}

Last(s) == s[Len(s)]

SystemCount(window) == Cardinality({i \in DOMAIN window : window[i].role = "system"})

\* askQuestion is called in this step
AskedNow == Len(asks') = Len(asks) + 1

\* the LLM was invoked for ask i
Invoked(i) == asks[i].messages # <<>>

\* the chat entry the message handler writes for an ask
EntryOf(a) == Msg("user", UserContent(a.speaker, a.question))

\* a stored record of key k carries the underage flag
FlagStored(k) ==
    \/ profilesA[k].st = "ok" /\ profilesA[k].underage
    \/ profilesB[k].st = "ok" /\ profilesB[k].underage

\* C1 (as claimed): whenever the trimming block of askQuestion runs (the window
\* has more than Cap messages once the user turn is pushed), the window it leaves
\* has at most Cap messages.  The code violates it: all salient messages are kept.
C1_TrimWithinCap ==
    [][(AskedNow /\ Len(conversationHistory) + 1 > Cap)
          => Len(conversationHistory') <= Cap]_vars

\* C2 (as claimed): the chat window never holds more than Cap messages, from the
\* window built at load on.  The code violates it.
C2_WindowWithinCap == pc = "running" => Len(conversationHistory) <= Cap

\* C3 (as claimed): every conversation window, the console one and the chat one,
\* holds exactly one system message, and holds it first.  The console window
\* violates it.
C3_OneSystemFirst ==
    /\ pc \in {"prompt", "waiting", "closed"} =>
          /\ SystemCount(historyArray) = 1
          /\ historyArray[1].role = "system"
    /\ pc = "running" =>
          /\ SystemCount(conversationHistory) = 1
          /\ conversationHistory[1].role = "system"

\* C4: once the underage flag of a stored record is true it stays true, whatever
\* store operation is called next.
C4_FlagMonotonic ==
    [][\A k \in Keys :
          /\ (profilesA[k].st = "ok" /\ profilesA[k].underage)
                => (profilesA'[k].st = "ok" /\ profilesA'[k].underage)
          /\ (profilesB[k].st = "ok" /\ profilesB[k].underage)
                => (profilesB'[k].st = "ok" /\ profilesB'[k].underage)]_vars

\* C4 witness: a record flagged in this run (no initial record is flagged with an
\* empty conversation) has then been through a load and is still flagged.
C4_Witness ==
    /\ profilesA["Ada"] = UserRecord(TRUE, <<>>)
    /\ lastOp.op = "loadConversation"
    /\ lastOp.key = "Ada"

\* C5 (as claimed): once a message that detectUnderage matches has been handled,
\* a stored record of its speaker carries the underage flag.  The chat surface
\* never stores the flag.
C5_UnderageStored ==
    \A i \in DOMAIN asks :
        (asks[i].result # "pending" /\ detectUnderage(asks[i].question))
            => FlagStored(asks[i].speaker)

\* C6: on the chat surface askQuestion returns null without invoking the LLM for
\* a question that does not contain the bot's name, and it invokes the LLM only
\* for questions that contain it.
C6_GateOnName ==
    \A i \in DOMAIN asks :
        /\ ~includesNami(asks[i].question)
              => (asks[i].result = "null" /\ ~Invoked(i))
        /\ Invoked(i) => includesNami(asks[i].question)

\* C6 witness: one question without the name was dropped, one with it reached the LLM.
C6_Witness ==
    /\ \E i \in DOMAIN asks : ~includesNami(asks[i].question) /\ asks[i].result = "null"
    /\ \E i \in DOMAIN asks : includesNami(asks[i].question) /\ Invoked(i)

C8_PromptHasCurrentMood ==
    \A i \in DOMAIN asks :
        (Invoked(i) /\ asks[i].mood \in Moods) =>
            /\ moodHandler(asks[i].mood) \in Range(asks[i].messages[1].content)
            /\ \A m \in Moods \ {asks[i].mood} :
                  moodHandler(m) \notin Range(asks[i].messages[1].content)

\* C9: in every state a handler can observe, the mood label, the mood content
\* and the personality of BOT_CONFIG belong to the same mood, the current one.
C9_MoodBundleConsistent ==
    /\ BOT_CONFIG.mood = currentMood
    /\ BOT_CONFIG.mood_content = getMoodContent(BOT_CONFIG.mood)
    /\ BOT_CONFIG.personality = getPersonality(BOT_CONFIG.mood)

\* C9 witness: the mood was changed while a request made under the old mood is
\* still waiting for the LLM.
C9_Witness ==
    /\ BOT_CONFIG.mood = "angry"
    /\ \E i \in Pending : asks[i].mood = "happy"

\* C10 (as claimed): appendMessageToConversation(key, u, a) followed by
\* loadConversation(key) returns the entries stored before the append, then the
\* user turn u, then the assistant turn a (stated for records that parse).  The
\* code violates it: the append and the load work on different files.
C10_AppendThenLoad ==
    [][(/\ lastOp.op = "appendMessageToConversation"
        /\ lastOp'.op = "loadConversation"
        /\ lastOp'.key = lastOp.key
        /\ profilesA[lastOp.key].st # "corrupt"
        /\ profilesB[lastOp.key].st # "corrupt")
          => /\ lastOp'.result = "return"
             /\ lastOp'.value = lastOp.before \o turnPair(lastOp.question, lastOp.botReply)]_vars

\* a store operation was called in this step
Called(name) == lastOp'.n = lastOp.n + 1 /\ lastOp'.op = name

\* C11 (as claimed): loadConversation of a key without a stored record does not
\* fail: it returns the empty conversation, and a record of the key is stored
\* afterwards.  The code violates it: the record is written to user_profiles and
\* the file read again is the one that is still missing, so the call throws.
C11_LoadMissingCreates ==
    [][(Called("loadConversation") /\ profilesA[lastOp'.key].st = "missing")
          => /\ lastOp'.result = "return"
             /\ lastOp'.value = <<>>
             /\ \/ exists(profilesA'[lastOp'.key])
                \/ exists(profilesB'[lastOp'.key])]_vars

C13_AppendReportsCorrupt ==
    [][(/\ Called("appendMessageToConversation")
        /\ profilesB[lastOp'.key].st = "corrupt")
          => lastOp'.result = "throw"]_vars

\* C14 (as claimed): no operation changes a stored record or transcript that
\* does not parse.  The code violates it: loadConversation of a key whose
\* ./conversations file is missing saves over the user_profiles record of the
\* key without reading it.
C14_CorruptNeverOverwritten ==
    [][/\ \A k \in Keys :
             /\ profilesA[k].st = "corrupt" => profilesA'[k] = profilesA[k]
             /\ profilesB[k].st = "corrupt" => profilesB'[k] = profilesB[k]
       /\ chatLogFile.st = "corrupt" => chatLogFile' = chatLogFile]_vars

\* C15: a load of a record or transcript that is stored but does not parse
\* throws; it does not return an empty conversation.
C15_CorruptLoadThrows ==
    [][/\ (Called("loadConversation") /\ profilesA[lastOp'.key].st = "corrupt")
             => lastOp'.result = "throw"
       /\ (Called("loadTwitchChatConversation") /\ chatLogFile.st = "corrupt")
             => lastOp'.result = "throw"]_vars

\* C15 witness: loadConversation was called on a record that does not parse and
\* threw, and the record is as it was.
C15_Witness ==
    /\ lastOp.op = "loadConversation"
    /\ profilesA[lastOp.key].st = "corrupt"
    /\ lastOp.result = "throw"

\* the request of ask a ended without a reply of the LLM that can be used: the
\* call threw, the response had no message, or the message had no text
Failed(a) ==
    \/ a.result \in {"couldntProcess", "somethingWrong"}
    \/ a.result = "botReply" /\ ~truthy(a.reply)

\* C16 (as claimed): there is one fallback text that askQuestion returns for
\* every failed request, whatever the kind of the failure.  The code violates it:
\* a call that throws and a response without message give two different texts,
\* and a message without text is returned as the reply.
C16_OneFallback ==
    \E fallback \in {couldntProcess, somethingWrong} :
        \A i \in DOMAIN asks : Failed(asks[i]) => asks[i].reply = fallback

\* C17 (as claimed): the step in which a request fails leaves the stored records
\* of its speaker as they were.  The code violates it: a message without text
\* is taken for a reply and the pair is appended to the record.
C17_FailureWritesNothing ==
    [][\A i \in Pending :
          (asks'[i].result # "pending" /\ Failed(asks'[i]))
             => /\ profilesA'[asks[i].speaker] = profilesA[asks[i].speaker]
                /\ profilesB'[asks[i].speaker] = profilesB[asks[i].speaker]]_vars

\* C18: every output budget is positive, and of two requests in a row with the
\* same text the second has a budget that is not larger, that is smaller while
\* the first is above the minimum, and that is the minimum once the first is.
C18_BudgetShrinks ==
    \A i \in DOMAIN asks :
        /\ asks[i].num_predict > 0
        /\ (i > 1 /\ asks[i].question = asks[i - 1].question)
              => LET old == asks[i - 1].num_predict
                     new == asks[i].num_predict
                 IN  /\ new <= old
                     /\ old > MinBudget => new < old
                     /\ old = MinBudget => new = MinBudget

\* C18 witness: the same line was asked four times in a row; the budget fell
\* from the configured one to the minimum and stayed there.
C18_Witness ==
    /\ Len(asks) = 4
    /\ \A i \in DOMAIN asks : asks[i].question = <<"hi">>
    /\ asks[1].num_predict = max_tokens
    /\ asks[2].num_predict < max_tokens /\ asks[2].num_predict > MinBudget
    /\ asks[3].num_predict = MinBudget
    /\ asks[4].num_predict = MinBudget

\* C19: a console line that is exit or begins with set mood to, in any case of
\* letters, starts no request, leaves the window and the stored files as they
\* are; every other line becomes the question of a new request.
C19_CommandsIntercepted ==
    [][events' = events + 1
          => IF lastOp'.question \in ConsoleCommands
             THEN /\ asks' = asks
                  /\ historyArray' = historyArray
                  /\ UNCHANGED diskVars
             ELSE /\ AskedNow
                  /\ Last(asks').question = lastOp'.question
                  /\ Last(asks').messages = historyArray'
                  /\ Last(historyArray').content =
                        UserContent(consoleUsername, lastOp'.question)]_vars

\* C19 witness: after a question had been asked, a mood command typed in
\* capitals was taken as a command.
C19_Witness ==
    /\ lastOp.op = "line"
    /\ lastOp.question = <<"Set Mood To", "grumpy">>
    /\ currentMood = "grumpy"
    /\ Len(asks) = 1
    /\ Len(historyArray) > 0

\* C20 (as claimed): while a request waits for the LLM, no step other than its
\* own completion changes the window.  The code violates it: the handler of the
\* next chat message pushes its user turn while the first request is pending.
C20_OneAtATime ==
    [][\A i \in Pending :
          asks'[i].result = "pending" => conversationHistory' = conversationHistory]_vars

\* C21 (as claimed): the step in which the LLM answers a request appends the
\* question and the reply, as one user turn and one assistant turn, to the end
\* of the stored record of the speaker, creating the record when there was
\* none.  The code violates it: when the record does not parse, the error of the
\* append is swallowed and nothing is stored.
C21_OnePairPerReply ==
    [][\A i \in Pending :
          asks'[i].result = "botReply"
             => LET k == asks[i].speaker
                    stored == IF profilesB[k].st = "ok"
                              THEN profilesB[k].conversation ELSE <<>>
                IN  /\ profilesB'[k].st = "ok"
                    /\ profilesB'[k].conversation =
                          stored \o turnPair(asks[i].question, asks'[i].reply)]_vars

\* C22: setUnderAgeToTrue on a record that parses leaves it flagged with its
\* conversation as it was, and called again on the same key it changes nothing.
C22_FlagIdempotent ==
    [][(Called("setUnderAgeToTrue") /\ profilesA[lastOp'.key].st = "ok")
          => /\ profilesA'[lastOp'.key] =
                   UserRecord(TRUE, profilesA[lastOp'.key].conversation)
             /\ (lastOp.op = "setUnderAgeToTrue" /\ lastOp.key = lastOp'.key)
                   => profilesA' = profilesA]_vars

\* C22 witness: setUnderAgeToTrue was called twice in a row on the record of Ada,
\* which is flagged and still holds its conversation.
C22_Witness ==
    /\ lastOp.op = "setUnderAgeToTrue" /\ lastOp.key = "Ada"
    /\ lastOp.prev = "setUnderAgeToTrue" /\ lastOp.prevKey = "Ada"
    /\ lastOp.result = "return"
    /\ profilesA["Ada"] = UserRecord(TRUE, OldPair)

\* C23: every reply sent to the chat goes to the speaker of the message whose
\* askQuestion call produced it, and carries the reply of that call.
C23_ReplyToItsSpeaker ==
    \A j \in DOMAIN said :
        /\ said[j].ask \in DOMAIN asks
        /\ asks[said[j].ask].via = "twitch"
        /\ said[j].to = asks[said[j].ask].speaker
        /\ said[j].text = asks[said[j].ask].reply

\* C23 witness: two speakers were waiting at the same time and the second was
\* answered first.
C23_Witness ==
    /\ Len(said) = 2
    /\ said[1].ask = 2 /\ said[2].ask = 1
    /\ said[1].to # said[2].to

\* the entries of a stored list are turns of the user or of the assistant
TurnsOnly(list) == \A j \in DOMAIN list : list[j].role \in {"user", "assistant"}

\* C24: no stored user record and no stored transcript holds an entry with the
\* role system.
C24_NoSystemStored ==
    /\ \A k \in Keys :
          /\ TurnsOnly(profilesA[k].conversation)
          /\ TurnsOnly(profilesB[k].conversation)
    /\ TurnsOnly(chatLogFile.data)

\* C24 witness: the record of a speaker was created from the history array that
\* begins with the system message, and holds the pair of the request only.
C24_Witness ==
    /\ profilesB["NamiFan"] = UserRecord(FALSE, turnPair(<<"Nami", "hi">>, <<"lol">>))
    /\ chatLogFile.st = "ok"
    /\ Msg("assistant", <<"lol">>) \in Range(chatLogFile.data)

\* C25: after appendMessage on a transcript that parses or is missing, the stored
\* transcript ends with the new entry and has at most 80 entries; it is the old
\* transcript with the entry at its end, without its 40 oldest entries when
\* that made more than 80.
C25_TranscriptCapped ==
    [][(Called("appendMessage") /\ chatLogFile.st # "corrupt")
          => LET pushed == chatLogFile.data \o <<Last(chatLogFile'.data)>>
             IN  /\ chatLogFile'.st = "ok"
                 /\ chatLogFile'.data # <<>>
                 /\ Last(chatLogFile'.data).content = lastOp'.question
                 /\ Len(chatLogFile'.data) <= AppendThreshold
                 /\ chatLogFile'.data =
                       IF Len(pushed) > AppendThreshold
                       THEN SubSeq(pushed, AppendDrop + 1, Len(pushed))
                       ELSE pushed]_vars

\* C25 witness: an entry was appended to a transcript of 80 entries, and the
\* stored transcript is the 41 newest entries.
C25_Witness ==
    /\ lastOp.op = "appendMessage"
    /\ Len(lastOp.before) = AppendThreshold
    /\ chatLogFile.st = "ok"
    /\ Len(chatLogFile.data) = AppendThreshold + 1 - AppendDrop
    /\ Last(chatLogFile.data).content = lastOp.question

\* askQuestion pushes a user turn in this step and the window is then over the cap
TrimsNow == AskedNow /\ Len(conversationHistory) + 1 > Cap

\* the window of this step after the push and before the trimming block
Pushed == Append(conversationHistory, EntryOf(Last(asks')))

\* C26 (as claimed): a trim retains at most 7 salient messages, and of two
\* messages of the same class it never retains the older one while it evicts
\* the newer one.  The code violates it: every salient message is retained, and
\* the remaining budget is filled with the oldest messages.
C26_RecencyWithinClass ==
    [][TrimsNow
          => LET kept == Range(Tail(conversationHistory'))
             IN  /\ Cardinality({j \in 2..Len(conversationHistory') :
                                    salient(conversationHistory'[j])}) <= SalientQuota
                 /\ \A i, j \in 2..Len(Pushed) :
                       (/\ i < j
                        /\ salient(Pushed[i]) = salient(Pushed[j])
                        /\ Pushed[i] \in kept)
                          => Pushed[j] \in kept]_vars

\* the position of the first entry of a sequence that equals m
FirstIndex(seq, m) ==
    CHOOSE i \in DOMAIN seq : seq[i] = m /\ \A j \in 1..(i - 1) : seq[j] # m

\* C27 (as claimed): a trim leaves the system message first, and any two
\* messages of the trimmed window stand in the order they had before the trim.
\* The code violates it: the salient messages are put before the oldest ones.
C27_OrderPreserved ==
    [][TrimsNow
          => /\ conversationHistory'[1] = conversationHistory[1]
             /\ \A a, b \in 2..Len(conversationHistory') :
                   (/\ a < b
                    /\ conversationHistory'[a] \in Range(Pushed)
                    /\ conversationHistory'[b] \in Range(Pushed))
                      => FirstIndex(Pushed, conversationHistory'[a])
                            <= FirstIndex(Pushed, conversationHistory'[b])]_vars

\* C28: the window handed to the LLM for a request holds the user turn of the
\* message of the request.
C28_PromptHasUserTurn ==
    \A i \in DOMAIN asks : Invoked(i) => EntryOf(asks[i]) \in Range(asks[i].messages)

\* C28 witness: the push of the user turn caused a trim, and the window handed
\* to the LLM holds the turn second, before older messages.
C28_Witness ==
    \E i \in DOMAIN asks :
        /\ Invoked(i)
        /\ Len(asks[i].messages) > Cap \div 2
        /\ asks[i].messages[2] = EntryOf(asks[i])
        /\ Last(asks[i].messages) # EntryOf(asks[i])

\* the number of requests right before request n that have its text
RECURSIVE Repeats(_, _)
Repeats(history, n) ==
    IF n <= 1 THEN 0
    ELSE IF history[n].question = history[n - 1].question
         THEN 1 + Repeats(history, n - 1)
         ELSE 0

\* C29 (as claimed): once the console askQuestion has taken a message,
\* repetitionCount is the number of messages right before it that have the same
\* text, 0 for the first message of the session.  The code violates it:
\* lastUserMessage starts as the empty string, so an empty first line counts as
\* a repeat.
C29_RepetitionCount ==
    asks # <<>> => repetitionCount = Repeats(asks, Len(asks))

C31_TranscriptApartFromRecords ==
    [][/\ (Called("appendMessage") \/ Called("loadTwitchChatConversation"))
             => profilesA' = profilesA /\ profilesB' = profilesB
       /\ (\/ Called("loadConversation")
           \/ Called("appendMessageToConversation")
           \/ Called("setUnderAgeToTrue"))
             => chatLogFile' = chatLogFile]_vars

\* repetitionCount of request n as the lines of the session alone determine it;
\* the text before the first line is the empty one
RECURSIVE CountFromLines(_, _)
CountFromLines(history, n) ==
    LET before == IF n = 1 THEN <<>> ELSE history[n - 1].question
    IN  IF history[n].question # before THEN 0
        ELSE IF n = 1 THEN 1 ELSE CountFromLines(history, n - 1) + 1

\* the window of request n as the stored conversation, the lines and the
\* answers of the LLM alone determine it
RECURSIVE WindowFromLines(_, _, _)
WindowFromLines(loaded, history, n) ==
    LET earlier ==
            IF n = 1 THEN loaded
            ELSE WindowFromLines(loaded, history, n - 1)
                    \o (IF history[n - 1].result = "botReply"
                        THEN <<Msg("assistant", history[n - 1].reply)>>
                        ELSE <<>>)
    IN  Append(earlier, EntryOf(history[n]))

\* C32: the window and the budget of every request of the console session are
\* functions of the stored conversation, of the lines typed and of the answers
\* of the LLM; neither the underage flag of the session nor that of the stored
\* record enters them, so two runs that differ in the flag only issue the same
\* requests.
C32_FlagNotInRequest ==
    \A i \in DOMAIN asks :
        /\ asks[i].messages =
              WindowFromLines(profilesA[consoleUsername].conversation, asks, i)
        /\ asks[i].num_predict = adjustedMaxTokens(CountFromLines(asks, i))

\* C32 witness: the first line set the flag of the session, and the request of
\* the next line went out with the full budget.
C32_Witness ==
    /\ underage
    /\ Len(asks) >= 2
    /\ detectUnderage(asks[1].question)
    /\ asks[2].num_predict = max_tokens
    /\ Len(asks[2].messages) > Len(asks[1].messages)

\* the calls of appendMessageToConversation that have run to their end
Done == {i \in DOMAIN asks : asks[i].result = "done"}

\* the places of the stored conversation, after the entries stored at the
\* start, where the pair of call i stands
PlacesOf(i) ==
    LET conv == profilesB[AppendKey].conversation
    IN  {j \in (Len(lastOp.before) + 1)..(Len(conv) - 1) :
            /\ (j - Len(lastOp.before)) % 2 = 1
            /\ <<conv[j], conv[j + 1]>> = turnPair(asks[i].question, asks[i].reply)}

\* C33: however calls of appendMessageToConversation on one key interleave, a
\* record that parses or was missing holds, after the entries it had, the pair
\* of every call that has run to its end, each once and unbroken, and nothing
\* else; a call that waits has created the record.
C33_NoLostAppend ==
    LET record == profilesB[AppendKey]
    IN  /\ record.st = "missing" => asks = <<>>
        /\ record.st = "ok" =>
              /\ Len(record.conversation) = Len(lastOp.before) + 2 * Cardinality(Done)
              /\ SubSeq(record.conversation, 1, Len(lastOp.before)) = lastOp.before
              /\ \A i \in Done :
                    Cardinality(PlacesOf(i)) =
                       Cardinality({j \in Done :
                           /\ asks[j].question = asks[i].question
                           /\ asks[j].reply = asks[i].reply})

\* C33 witness: the first call created the record and waited, the second call
\* ran to its end meanwhile, and the record holds both pairs, the second first.
C33_Witness ==
    /\ lastOp.before = <<>>
    /\ Len(asks) = 2 /\ Done = {1, 2}
    /\ asks[1].question # asks[2].question
    /\ profilesB[AppendKey].conversation =
          turnPair(asks[2].question, asks[2].reply)
             \o turnPair(asks[1].question, asks[1].reply)

\* how often m stands in the sequence
Occurrences(seq, m) == Cardinality({j \in DOMAIN seq : seq[j] = m})

\* C34 (as claimed): a trim leaves no message in the window more often than it
\* was there, and so does not make the window longer.  The code violates it:
\* the oldest messages are pushed after the salient ones, which may hold them
\* already.
C34_TrimNoDuplicate ==
    [][TrimsNow
          => /\ Len(conversationHistory') <= Len(Pushed)
             /\ \A m \in Range(conversationHistory') :
                   Occurrences(conversationHistory', m) <= Occurrences(Pushed, m)]_vars

\* C35: an event the bot itself sent changes neither the stored files nor the
\* window, starts no request and sends nothing.
C35_SelfIgnored ==
    [][Called("self") => UNCHANGED <<diskVars, chatVars, moodVars, asks>>]_vars

\* C35 witness: the bot has answered a chatter, and an event of its own with
\* the text of that answer was handled.
C35_Witness ==
    /\ lastOp.op = "self" /\ lastOp.n >= 1
    /\ said # <<>>
    /\ said[1].text = lastOp.question
    /\ Cardinality(DOMAIN asks) = 1

\* the request of ask a ended with one of the two fallback texts
FellBack(a) == a.result \in {"couldntProcess", "somethingWrong"}

\* C36 (as claimed): once the LLM call of a request has failed, the user turn
\* pushed for the request is no longer in the window.
C36_FailureRestoresWindow ==
    [][\A i \in Pending :
          FellBack(asks'[i]) => EntryOf(asks[i]) \notin Range(conversationHistory')]_vars

\* C36 (amended): the failure of the LLM call of a request leaves the window as
\* it is: the user turn pushed for the request stays, without an assistant turn.
C36_FailureKeepsWindow ==
    [][\A i \in Pending :
          FellBack(asks'[i])
             => /\ conversationHistory' = conversationHistory
                /\ EntryOf(asks[i]) \in Range(conversationHistory')]_vars

\* C36 witness: the only request failed, and its user turn is the last entry
\* of the window.
C36_Witness ==
    /\ Len(asks) = 1
    /\ FellBack(asks[1])
    /\ Last(conversationHistory) = EntryOf(asks[1])

\* C37 (as claimed): no assistant entry of the transcript holds one of the
\* fallback texts.  The code violates it: askQuestion returns the fallback text
\* as its reply, and the handler stores and sends every reply that is not empty.
C37_NoFallbackInTranscript ==
    /\ Msg("assistant", couldntProcess) \notin Range(chatLogFile.data)
    /\ Msg("assistant", somethingWrong) \notin Range(chatLogFile.data)

\* the roles of a stored conversation go user, assistant, user, assistant
Alternates(list) ==
    /\ Len(list) % 2 = 0
    /\ \A j \in DOMAIN list :
          list[j].role = IF j % 2 = 1 THEN "user" ELSE "assistant"

\* C38: the conversation of every stored user record has even length and its
\* roles alternate, beginning with user.
C38_PairsOnly ==
    \A k \in Keys :
        /\ Alternates(profilesA[k].conversation)
        /\ Alternates(profilesB[k].conversation)

\* C38 witness: a speaker whose record held a pair had one request answered and
\* one request failed; the record holds two pairs.
C38_Witness ==
    \E k \in Speakers :
        /\ Len(profilesB[k].conversation) = 4
        /\ \E i, j \in DOMAIN asks :
              /\ asks[i].speaker = k /\ asks[i].result = "botReply"
              /\ asks[j].speaker = k /\ FellBack(asks[j])

\* C39: whatever the outcome of the LLM call, the console is at its prompt once
\* the call has ended; a line other than exit leaves it at the prompt or
\* waiting for the LLM, exit closes it, and once closed it starts no request.
C39_LoopGoesOn ==
    [][/\ pc = "waiting" => pc' = "prompt"
       /\ (pc = "prompt" /\ events' = events + 1)
             => IF lastOp'.question = <<"EXIT">>
                THEN pc' = "closed"
                ELSE pc' \in {"prompt", "waiting"}
       /\ pc = "closed" => asks' = asks]_vars

\* C39 witness: the LLM call of a request threw, and the console is at its
\* prompt with lines left to take.
C39_Witness ==
    /\ pc = "prompt"
    /\ events < MaxLines
    /\ asks # <<>>
    /\ Last(asks).result = "somethingWrong"

====
